---- MODULE Spec2Model ----
(***************************************************************************)
(* Model of backend-101/final-project/main.py: the in-memory user store,   *)
(* the credential store, the refresh-token registry and the JWT handlers.  *)
(*                                                                         *)
(* Spec      every request handler runs as one atomic step.                *)
(* SpecConc  login and refresh run one statement at a time in worker       *)
(*           threads (FastAPI runs "def" handlers in a thread pool and the *)
(*           source takes no lock).                                        *)
(***************************************************************************)
EXTENDS Integers, Sequences, FiniteSets, TLC

\* ---------------------------------------------------------------- bounds
\* ids handed out by _get_next_user_id
MaxUsers == 2
\* uuid4 draws made by create_refresh_token
MaxTokens == 2
\* last tick of the clock
MaxTime == 2
\* state-changing steps (successful writes and clock ticks) in one run
MaxOps == 5

\* ------------------------------------------------- configuration (.env)
\* Lifetimes in clock ticks; the source reads them from the environment.
access_token_expire_minutes == 1
refresh_token_expire_days == 1
secret_key == "SECRET_KEY"
\* a key the server does not sign with
other_key == "OTHER_KEY"

\* ---------------------------------------------------------------- inputs
Emails == {"ann@x.com", "bob@x.com"}
\* a string is modelled as its sequence of characters where the code looks
\* inside it (str.strip), and as a TLA+ string where it only compares it
Names == {<<"A">>, <<"B">>}
RegisterNames == {<<" ", "A">>, <<" ">>}
Roles == {"admin", "user"}
ForgedRoles == {"admin", "guest"}
Passwords == {"secret1", "short"}
LoginPasswords == {"secret1", "wrong-pw", ""}
Salts == {"s1"}

VARIABLES
    users,                  \* List[User], a sequence of records
    next_user_id,           \* _next_user_id_user
    user_passwords,         \* Dict[email, hash]
    active_refresh_tokens,  \* Dict[token_id, {email, expires_at}]
    uuids_drawn,            \* how many uuid4 values have been drawn
    now,                    \* datetime.now(timezone.utc)
    issued,                 \* tokens the server has returned to clients
    resp,                   \* the response being sent (with the request, for the auth routes)
    registered_as,          \* history: id -> what the account registered with
    superseded,             \* history: refresh ids issued before a later login of the same email
    redeemed,               \* history: refresh ids a refresh has succeeded with
    login_pairs,            \* history: refresh id -> the account and access token of its login
    tasks,                  \* List[Dict], the to-do list
    next_task_id,           \* _next_id
    ops,                    \* state-changing steps taken so far (bounds the run)
    pc,                     \* per worker thread: the statement it is at
    loc,                    \* per worker thread: the handler's local variables
    raced                   \* history: both threads ended their revoke loop before either stored

shared == <<users, next_user_id, user_passwords, active_refresh_tokens, uuids_drawn, now>>
history == <<registered_as, superseded, redeemed, login_pairs>>
\* what a request that writes nothing leaves alone
task_store == <<tasks, next_task_id>>
untouched == <<shared, issued, history, task_store, ops, pc, loc, raced>>
threads == <<pc, loc, raced>>
vars == <<users, next_user_id, user_passwords, active_refresh_tokens, uuids_drawn,
          now, issued, resp, registered_as, superseded, redeemed, login_pairs, tasks,
          next_task_id, ops, pc, loc, raced>>

\* ------------------------------------------------------------- helpers
RemoveAt(s, i) == SubSeq(s, 1, i - 1) \o SubSeq(s, i + 1, Len(s))

\* dict without one key (del d[k])
DictDel(d, k) == [x \in DOMAIN d \ {k} |-> d[x]]

\* dict with d[k] = v
DictSet(d, k, v) == [x \in DOMAIN d \cup {k} |-> IF x = k THEN v ELSE d[x]]

IsSpace(c) == c = " "

RECURSIVE lstrip(_)
lstrip(s) == IF s # <<>> /\ IsSpace(Head(s)) THEN lstrip(Tail(s)) ELSE s

RECURSIVE rstrip(_)
rstrip(s) == IF s # <<>> /\ IsSpace(s[Len(s)]) THEN rstrip(SubSeq(s, 1, Len(s) - 1)) ELSE s

\* str.strip()
strip(s) == rstrip(lstrip(s))

\* ------------------------------------------------------------- bcrypt
\* bcrypt.hashpw: the hash carries its salt; the digest is a function of both
hashpw(password, salt) == [salt |-> salt, digest |-> <<salt, password>>]

\* bcrypt.checkpw: hash the candidate with the stored salt and compare
checkpw(password, hashed) == hashpw(password, hashed.salt) = hashed

\* ---------------------------------------------------------------- jose
\* jwt.encode: the claims and the key that signed them
jwt_encode(claims, key) == [payload |-> claims, key |-> key]

SignatureOK(token, key) == token.key = key

\* mutant of TokenExpired: exp is not checked
TokenExpired_never(token) == FALSE

\* jose checks exp after the signature: expired when now > exp
TokenExpired(token) == now > token.payload.exp

\* jwt.decode: "ok", or the exception it raises
jwt_decode(token, key) ==
    IF ~SignatureOK(token, key) THEN "JWTError"
    ELSE IF TokenExpired(token) THEN "ExpiredSignatureError"
    ELSE "ok"

\* payload.get(k) is not None
HasClaim(token, k) == k \in DOMAIN token.payload

\* mutant of create_access_token: the role claim is always "user"
create_access_token_plain_role(data) ==
    jwt_encode([sub |-> data.sub, role |-> "user", name |-> data.name,
                exp |-> now + access_token_expire_minutes], secret_key)

create_access_token(data) ==
    jwt_encode([sub |-> data.sub, role |-> data.role, name |-> data.name,
                exp |-> now + access_token_expire_minutes], secret_key)

\* mutant of verify_access_token: the account must still be in users
verify_access_token_known_user(token) ==
    /\ jwt_decode(token, secret_key) = "ok"
    /\ \E i \in DOMAIN users : users[i].email = token.payload.sub

\* verify_access_token: TRUE when it returns the payload, FALSE when it raises 401
verify_access_token(token) == jwt_decode(token, secret_key) = "ok"

\* create_refresh_token's expire
refresh_expire == now + refresh_token_expire_days

\* the token create_refresh_token encodes for a drawn uuid
refresh_token_of(email, token_id, expire) ==
    jwt_encode([sub |-> email, id |-> token_id, exp |-> expire], secret_key)

\* mutant of registry_insert: the dict is rebuilt around the new entry
registry_insert_replacing(reg, email, token_id, expire) ==
    DictSet(<<>>, token_id, [email |-> email, expires_at |-> expire])

\* the registry after create_refresh_token stored the token as active
registry_insert(reg, email, token_id, expire) ==
    DictSet(reg, token_id, [email |-> email, expires_at |-> expire])

\* login_user's tokens_to_revoke
tokens_to_revoke(reg, email) == {k \in DOMAIN reg : reg[k].email = email}

\* mutant of revoke_all: the loop deletes nothing
revoke_all_skipped(reg, email) == reg

\* login_user's revoke loop, run to its end
revoke_all(reg, email) == [k \in DOMAIN reg \ tokens_to_revoke(reg, email) |-> reg[k]]

\* mutant of check_user_role: any role passes
check_user_role_any(token, required_role) == HasClaim(token, "role")

\* check_user_role: TRUE when it returns, FALSE when it raises 403
check_user_role(token, required_role) ==
    HasClaim(token, "role") /\ token.payload.role = required_role

\* _find_user_index, 0 for -1
_find_user_index(user_id) ==
    IF \E i \in DOMAIN users : users[i].id = user_id
    THEN CHOOSE i \in DOMAIN users :
            users[i].id = user_id /\ \A j \in 1..(i - 1) : users[j].id # user_id
    ELSE 0

\* the first user with the email, as the handlers' loops find it; 0 for None
find_by_email(email) ==
    IF \E i \in DOMAIN users : users[i].email = email
    THEN CHOOSE i \in DOMAIN users :
            users[i].email = email /\ \A j \in 1..(i - 1) : users[j].email # email
    ELSE 0


\* ------------------------------------------------------- request domains
Restrict(f, S) == [k \in S |-> f[k]]

\* UserCreate
UserCreates == [name : Names, email : Emails, role : Roles]

\* UserUpdate: every field optional; an absent key is None.  The requests
\* tried set no field, one field, or all three.
UserUpdates ==
    {Restrict(full, S) : full \in [name : Names, email : Emails, role : Roles],
                         S \in {{}, {"name"}, {"email"}, {"role"},
                                {"name", "email", "role"}}}

\* RegisterRequest, before validation
RegisterRequests ==
    [name : RegisterNames, email : Emails, password : Passwords, role : Roles]

\* LoginRequest
LoginRequests == [email : Emails, password : LoginPasswords]

\* tokens signed with a key that is not the server's
Forged ==
    {jwt_encode([sub |-> "ann@x.com", role |-> r, name |-> <<"A">>, exp |-> MaxTime],
                other_key) : r \in ForgedRoles}
    \cup {jwt_encode([sub |-> "ann@x.com", id |-> i, exp |-> MaxTime], other_key) :
            i \in 1..MaxTokens}

\* what a client can put in the Authorization header or the refresh body
Presentable == issued \cup Forged

\* worker threads of the server's pool
Threads == {1, 2}

NoResp == [op |-> "none", status |-> 0]

\* one more state-changing step, while the run's budget lasts
Spend == ops < MaxOps /\ ops' = ops + 1

Init ==
    /\ users = <<>>
    /\ next_user_id = 1
    /\ user_passwords = <<>>
    /\ active_refresh_tokens = <<>>
    /\ uuids_drawn = 0
    /\ now = 0
    /\ issued = {}
    /\ resp = NoResp
    /\ registered_as = <<>>
    /\ superseded = {}
    /\ redeemed = {}
    /\ login_pairs = <<>>
    /\ tasks = <<>>
    /\ next_task_id = 1
    /\ ops = 0
    /\ pc = [t \in Threads |-> "idle"]
    /\ loc = [t \in Threads |-> <<>>]
    /\ raced = FALSE

\* the passage of time between requests
Tick ==
    /\ now < MaxTime
    /\ now' = now + 1
    /\ Spend
    /\ UNCHANGED <<users, next_user_id, user_passwords, active_refresh_tokens,
                   uuids_drawn, issued, resp, history, threads,
                           task_store>>

\* mutant of email_taken: the uniqueness loop is missing
email_taken_never(email) == FALSE

\* the uniqueness loop of create_user and register_user
email_taken(email) == \E i \in DOMAIN users : users[i].email = email

\* ----------------------------------------------------------- task CRUD
\* the request bodies tried: a Dict with any of title, completed
TaskBodies == {[title |-> <<"T">>], [title |-> <<" ">>], [completed |-> TRUE]}

\* the first task with the id, as the handlers' loops find it; 0 for none
find_task(task_id) ==
    IF \E i \in DOMAIN tasks : tasks[i].id = task_id
    THEN CHOOSE i \in DOMAIN tasks :
            tasks[i].id = task_id /\ \A j \in 1..(i - 1) : tasks[j].id # task_id
    ELSE 0

\* GET /tasks/
list_tasks ==
    /\ resp' = [op |-> "list_tasks", status |-> 200, body |-> tasks]
    /\ UNCHANGED untouched

\* GET /tasks/{task_id}
get_task(task_id) ==
    /\ resp' = IF find_task(task_id) = 0
               THEN [op |-> "get_task", status |-> 404]
               ELSE [op |-> "get_task", status |-> 200, body |-> tasks[find_task(task_id)]]
    /\ UNCHANGED untouched

\* POST /tasks/
create_task(body) ==
    LET title == strip(IF "title" \in DOMAIN body THEN body.title ELSE <<>>)
        completed == IF "completed" \in DOMAIN body THEN body.completed ELSE FALSE
    IN IF title = <<>>
       THEN /\ resp' = [op |-> "create_task", status |-> 400]
            /\ UNCHANGED untouched
       ELSE LET task == [id |-> next_task_id, title |-> title, completed |-> completed]
            IN /\ tasks' = Append(tasks, task)
               /\ next_task_id' = next_task_id + 1
               /\ resp' = [op |-> "create_task", status |-> 201, body |-> task]
               /\ Spend
               /\ UNCHANGED <<shared, issued, history, threads>>

\* the task update_task leaves for body over t
updated_task(t, body) ==
    [id |-> t.id,
     title |-> IF "title" \in DOMAIN body THEN body.title ELSE t.title,
     completed |-> IF "completed" \in DOMAIN body THEN body.completed ELSE t.completed]

\* PUT /tasks/{task_id}
update_task(task_id, body) ==
    LET idx == find_task(task_id)
    IN IF idx = 0
       THEN /\ resp' = [op |-> "update_task", status |-> 404]
            /\ UNCHANGED untouched
       ELSE /\ tasks' = [tasks EXCEPT ![idx] = updated_task(tasks[idx], body)]
            /\ resp' = [op |-> "update_task", status |-> 200,
                        body |-> updated_task(tasks[idx], body)]
            /\ Spend
            /\ UNCHANGED <<shared, issued, history, threads, next_task_id>>

\* DELETE /tasks/{task_id}
delete_task(task_id) ==
    LET idx == find_task(task_id)
    IN IF idx = 0
       THEN /\ resp' = [op |-> "delete_task", status |-> 404]
            /\ UNCHANGED untouched
       ELSE /\ tasks' = RemoveAt(tasks, idx)
            /\ resp' = [op |-> "delete_task", status |-> 204]
            /\ Spend
            /\ UNCHANGED <<shared, issued, history, threads, next_task_id>>

\* GET /health
health_check ==
    /\ resp' = [op |-> "health", status |-> 200]
    /\ UNCHANGED untouched

\* ------------------------------------------------------------ user CRUD
\* POST /users/
create_user(user) ==
    IF email_taken(user.email)
    THEN /\ resp' = [op |-> "create_user", status |-> 400]
         /\ UNCHANGED untouched
    ELSE /\ next_user_id <= MaxUsers
         /\ LET new_user == [id |-> next_user_id, name |-> user.name,
                             email |-> user.email, role |-> user.role]
            IN /\ users' = Append(users, new_user)
               /\ resp' = [op |-> "create_user", status |-> 201, body |-> new_user]
         /\ next_user_id' = next_user_id + 1
         /\ Spend
         /\ UNCHANGED <<user_passwords, active_refresh_tokens, uuids_drawn, now,
                        issued, history, threads,
                           task_store>>

\* the record update_user stores for data over existing
updated_user(existing, data) ==
    [id |-> existing.id,
     name |-> IF "name" \in DOMAIN data THEN data.name ELSE existing.name,
     email |-> IF "email" \in DOMAIN data THEN data.email ELSE existing.email,
     role |-> IF "role" \in DOMAIN data THEN data.role ELSE existing.role]

\* mutant of email_taken_by_other: the uniqueness check is missing
email_taken_by_other_never(user_id, email) == FALSE

\* update_user's uniqueness loop: another account has the email
email_taken_by_other(user_id, email) ==
    \E i \in DOMAIN users : users[i].email = email /\ users[i].id # user_id

\* PUT /users/{user_id}
update_user(user_id, data) ==
    LET idx == _find_user_index(user_id)
    IN IF idx = 0
       THEN /\ resp' = [op |-> "update_user", status |-> 404]
            /\ UNCHANGED untouched
       ELSE IF "email" \in DOMAIN data /\ email_taken_by_other(user_id, data.email)
       THEN /\ resp' = [op |-> "update_user", status |-> 400]
            /\ UNCHANGED untouched
       ELSE /\ users' = [users EXCEPT ![idx] = updated_user(users[idx], data)]
            /\ resp' = [op |-> "update_user", status |-> 200,
                        body |-> updated_user(users[idx], data)]
            /\ Spend
            /\ UNCHANGED <<next_user_id, user_passwords, active_refresh_tokens,
                           uuids_drawn, now, issued, history, threads,
                           task_store>>

\* mutant of delete_user: the account's refresh tokens are revoked with it
delete_user_revoking(user_id) ==
    LET idx == _find_user_index(user_id)
    IN IF idx = 0
       THEN /\ resp' = [op |-> "delete_user", status |-> 404]
            /\ UNCHANGED untouched
       ELSE /\ users' = RemoveAt(users, idx)
            /\ active_refresh_tokens' = revoke_all(active_refresh_tokens, users[idx].email)
            /\ resp' = [op |-> "delete_user", status |-> 204]
            /\ Spend
            /\ UNCHANGED <<next_user_id, user_passwords, uuids_drawn, now, issued,
                           history, threads, task_store>>

\* DELETE /users/{user_id}
delete_user(user_id) ==
    LET idx == _find_user_index(user_id)
    IN IF idx = 0
       THEN /\ resp' = [op |-> "delete_user", status |-> 404]
            /\ UNCHANGED untouched
       ELSE /\ users' = RemoveAt(users, idx)
            /\ resp' = [op |-> "delete_user", status |-> 204]
            /\ Spend
            /\ UNCHANGED <<next_user_id, user_passwords, active_refresh_tokens,
                           uuids_drawn, now, issued, history, threads,
                           task_store>>

\* ------------------------------------------------------------- register
\* mutant of validate_register: the password's length is not checked
validate_register_name_only(data) == strip(data.name) # <<>>

\* RegisterRequest's field validators: TRUE when both pass
validate_register(data) == strip(data.name) # <<>> /\ Len(data.password) >= 6

\* POST /auth/register; a request the model rejects in validation gets 422
register_user(data, salt) ==
    IF ~validate_register(data)
    THEN /\ resp' = [op |-> "register", status |-> 422, req |-> data]
         /\ UNCHANGED untouched
    ELSE IF email_taken(data.email)
    THEN /\ resp' = [op |-> "register", status |-> 400, req |-> data]
         /\ UNCHANGED untouched
    ELSE /\ next_user_id <= MaxUsers
         /\ LET new_user == [id |-> next_user_id, name |-> strip(data.name),
                             email |-> data.email, role |-> data.role]
            IN /\ users' = Append(users, new_user)
               /\ resp' = [op |-> "register", status |-> 201, req |-> data,
                           body |-> new_user]
         /\ next_user_id' = next_user_id + 1
         /\ user_passwords' = DictSet(user_passwords, data.email,
                                      hashpw(data.password, salt))
         /\ registered_as' = DictSet(registered_as, next_user_id,
                                     [email |-> data.email, password |-> data.password])
         /\ Spend
         /\ UNCHANGED <<active_refresh_tokens, uuids_drawn, now, issued,
                        superseded, redeemed, login_pairs, threads,
                           task_store>>


\* ---------------------------------------------------------------- login
\* mutant of login_check: an unknown email is answered like a wrong password
login_check_uniform(data) ==
    IF data.password = "" THEN 400
    ELSE IF \/ find_by_email(data.email) = 0
            \/ data.email \notin DOMAIN user_passwords
            \/ ~checkpw(data.password, user_passwords[data.email]) THEN 400
    ELSE 200

\* the status login_user answers with, from its checks in order
login_check(data) ==
    IF data.password = "" THEN 400
    ELSE IF find_by_email(data.email) = 0 THEN 404
    ELSE IF \/ data.email \notin DOMAIN user_passwords
            \/ ~checkpw(data.password, user_passwords[data.email]) THEN 400
    ELSE 200

\* mutant of login_registry: the new token is stored before the revoke loop
login_registry_insert_first(reg, email, token_id) ==
    revoke_all(registry_insert(reg, email, token_id, refresh_expire), email)

\* the registry after a successful login: the revoke loop, then create_refresh_token
login_registry(reg, email, token_id) ==
    registry_insert(revoke_all(reg, email), email, token_id, refresh_expire)

\* the refresh ids earlier logins of the email returned (history)
earlier_refresh_ids(email) ==
    {t.payload.id : t \in {x \in issued : HasClaim(x, "id") /\ x.payload.sub = email}}

\* POST /auth/login
login_user(data) ==
    IF login_check(data) # 200
    THEN /\ resp' = [op |-> "login", status |-> login_check(data), req |-> data]
         /\ UNCHANGED untouched
    ELSE /\ uuids_drawn < MaxTokens
         /\ LET user == users[find_by_email(data.email)]
                token == create_access_token(
                            [sub |-> user.email, role |-> user.role, name |-> user.name])
                token_id == uuids_drawn + 1
                refresh_token == refresh_token_of(user.email, token_id, refresh_expire)
            IN /\ active_refresh_tokens' =
                    login_registry(active_refresh_tokens, data.email, token_id)
               /\ uuids_drawn' = token_id
               /\ issued' = issued \cup {token, refresh_token}
               /\ resp' = [op |-> "login", status |-> 200, req |-> data,
                           body |-> [message |-> user.name, access_token |-> token,
                                     refresh_token |-> refresh_token]]
               /\ superseded' = superseded \cup earlier_refresh_ids(data.email)
               /\ login_pairs' = DictSet(login_pairs, token_id,
                                         [user |-> user, access_token |-> token])
         /\ Spend
         /\ UNCHANGED <<users, next_user_id, user_passwords, now, registered_as,
                        redeemed, threads,
                           task_store>>

\* -------------------------------------------------------------- refresh
\* mutant of refresh_check: the user is looked up before the registry
refresh_check_user_first(token) ==
    IF jwt_decode(token, secret_key) # "ok" THEN 401
    ELSE IF ~HasClaim(token, "sub") THEN 401
    ELSE IF find_by_email(token.payload.sub) = 0 THEN 404
    ELSE IF ~HasClaim(token, "id") THEN 401
    ELSE IF token.payload.id \notin DOMAIN active_refresh_tokens THEN 401
    ELSE 200

\* the status refresh_access_token answers with, from its checks in order
refresh_check(token) ==
    IF jwt_decode(token, secret_key) # "ok" THEN 401
    ELSE IF ~HasClaim(token, "id") THEN 401
    ELSE IF token.payload.id \notin DOMAIN active_refresh_tokens THEN 401
    ELSE IF ~HasClaim(token, "sub") THEN 401
    ELSE IF find_by_email(token.payload.sub) = 0 THEN 404
    ELSE 200

\* mutant of refresh_registry: the redeemed entry stays
refresh_registry_kept(reg, token_id) == reg

\* the registry after a successful refresh: del active_refresh_tokens[token_id]
refresh_registry(reg, token_id) == DictDel(reg, token_id)

\* POST /auth/refresh
refresh_access_token(token) ==
    IF refresh_check(token) # 200
    THEN /\ resp' = [op |-> "refresh", status |-> refresh_check(token), req |-> token]
         /\ UNCHANGED untouched
    ELSE LET user == users[find_by_email(token.payload.sub)]
             new_access_token == create_access_token(
                            [sub |-> user.email, role |-> user.role, name |-> user.name])
         IN /\ active_refresh_tokens' =
                    refresh_registry(active_refresh_tokens, token.payload.id)
            /\ issued' = issued \cup {new_access_token}
            /\ resp' = [op |-> "refresh", status |-> 200, req |-> token,
                        body |-> [access_token |-> new_access_token]]
            /\ redeemed' = redeemed \cup {token.payload.id}
            /\ Spend
            /\ UNCHANGED <<users, next_user_id, user_passwords, uuids_drawn, now,
                           registered_as, superseded, login_pairs, threads,
                           task_store>>

\* ----------------------------------------------------- protected routes
\* GET /protected: 500 is the KeyError of user_data['role']
protected_status(token) ==
    IF ~verify_access_token(token) THEN 401
    ELSE IF ~HasClaim(token, "role") THEN 500
    ELSE 200

\* GET /me
me_status(token) ==
    IF ~verify_access_token(token) THEN 401
    ELSE IF ~(HasClaim(token, "sub") /\ HasClaim(token, "name") /\ HasClaim(token, "role"))
         THEN 500
    ELSE 200

\* GET /admin and GET /user-resource: verify, then check_user_role
role_route_status(token, required_role) ==
    IF ~verify_access_token(token) THEN 401
    ELSE IF ~check_user_role(token, required_role) THEN 403
    ELSE 200

\* a route that writes nothing: body is what it returns with status 200
answer(op, status, token, body) ==
    /\ resp' = IF status = 200
               THEN [op |-> op, status |-> 200, req |-> token, body |-> body]
               ELSE [op |-> op, status |-> status, req |-> token]
    /\ UNCHANGED untouched

protected_route(token) ==
    answer("protected", protected_status(token), token, [role |-> token.payload.role])

get_current_user(token) ==
    answer("me", me_status(token), token,
           [email |-> token.payload.sub, name |-> token.payload.name,
            role |-> token.payload.role])

admin_route(token) ==
    answer("admin", role_route_status(token, "admin"), token, [message |-> "Admin"])

user_resource(token) ==
    answer("user_resource", role_route_status(token, "user"), token,
           [name |-> token.payload.name])

\* ------------------------------------------------------------------ Spec
\* the response leaves the server; the next request is served after it
send_response ==
    /\ resp # NoResp
    /\ resp' = NoResp
    /\ UNCHANGED untouched

\* the server is between requests
Ready == resp = NoResp

Next ==
    \/ Ready /\ Tick
    \/ Ready /\ \E user \in UserCreates : create_user(user)
    \/ Ready /\ \E user_id \in 1..MaxUsers, data \in UserUpdates : update_user(user_id, data)
    \/ Ready /\ \E user_id \in 1..MaxUsers : delete_user(user_id)
    \/ Ready /\ \E data \in RegisterRequests, salt \in Salts : register_user(data, salt)
    \/ Ready /\ \E data \in LoginRequests : login_user(data)
    \/ Ready /\ \E token \in Presentable : refresh_access_token(token)
    \/ Ready /\ \E token \in Presentable : protected_route(token)
    \/ Ready /\ \E token \in Presentable : get_current_user(token)
    \/ Ready /\ \E token \in Presentable : admin_route(token)
    \/ Ready /\ \E token \in Presentable : user_resource(token)
    \/ send_response

Spec == Init /\ [][Next]_vars

\* the task routes, which share no state with the users and the tokens
TaskNext ==
    \/ Ready /\ list_tasks
    \/ Ready /\ \E task_id \in 1..next_task_id : get_task(task_id)
    \/ Ready /\ \E body \in TaskBodies : create_task(body)
    \/ Ready /\ \E task_id \in 1..next_task_id, body \in TaskBodies :
                    update_task(task_id, body)
    \/ Ready /\ \E task_id \in 1..next_task_id : delete_task(task_id)
    \/ Ready /\ health_check

NextAll == Next \/ TaskNext

\* every route of the application, each handler one atomic step
SpecAll == Init /\ [][NextAll]_vars


\* ------------------------------------------------------------- SpecConc
\* login_user and refresh_access_token one statement at a time.  A step is
\* one statement that reads or writes a shared dictionary or list, together
\* with the local statements before it.  pc[t] names the statement thread t
\* is at, loc[t] holds the handler's locals, and after the handler returned
\* loc[t] is its response.
others == <<users, next_user_id, user_passwords, now, resp, registered_as, task_store>>

\* threads between the start of a login and its uuid4 draw
drawing == {t \in Threads : pc[t] \in {"login_verify", "login_list", "login_revoke",
                                       "login_tokens"}}

\* both threads are in a login of one email, past the revoke loop and before
\* create_refresh_token's insert
in_window(pcs, locs) ==
    /\ \A t \in Threads : pcs[t] \in {"login_tokens", "login_store"}
    /\ \A t, u \in Threads : locs[t].data.email = locs[u].data.email

goto(t, label, locals) ==
    /\ pc' = [pc EXCEPT ![t] = label]
    /\ loc' = [loc EXCEPT ![t] = locals]
    /\ raced' = IF in_window([pc EXCEPT ![t] = label], [loc EXCEPT ![t] = locals])
                THEN TRUE
                ELSE IF label = "idle" THEN FALSE ELSE raced

\* the handler raises or returns: the response is the thread's last local
return(t, op, status) == goto(t, "idle", [op |-> op, status |-> status])

\* login_user, lines 326-337: the field check and the search for the user
login_begin(t, data) ==
    /\ pc[t] = "idle"
    /\ uuids_drawn + Cardinality(drawing) < MaxTokens
    /\ Spend
    /\ IF data.password = "" THEN return(t, "login", 400)
       ELSE IF find_by_email(data.email) = 0 THEN return(t, "login", 404)
       ELSE goto(t, "login_verify",
                 [data |-> data, user |-> users[find_by_email(data.email)]])
    /\ UNCHANGED <<others, active_refresh_tokens, uuids_drawn, issued,
                   superseded, redeemed, login_pairs>>

\* lines 340-343: the password check
login_verify(t) ==
    /\ pc[t] = "login_verify"
    /\ LET data == loc[t].data
       IN IF \/ data.email \notin DOMAIN user_passwords
             \/ ~checkpw(data.password, user_passwords[data.email])
          THEN return(t, "login", 400)
          ELSE goto(t, "login_list", loc[t])
    /\ UNCHANGED <<others, active_refresh_tokens, uuids_drawn, issued,
                   superseded, redeemed, login_pairs, ops>>

\* line 345: tokens_to_revoke, a snapshot of the registry's keys for the email
login_list(t) ==
    /\ pc[t] = "login_list"
    /\ LET keys == tokens_to_revoke(active_refresh_tokens, loc[t].data.email)
       IN goto(t, IF keys = {} THEN "login_tokens" ELSE "login_revoke",
               [data |-> loc[t].data, user |-> loc[t].user, keys |-> keys])
    /\ UNCHANGED <<others, active_refresh_tokens, uuids_drawn, issued,
                   superseded, redeemed, login_pairs, ops>>

\* lines 346-347: one del of the loop; a key another thread has deleted since
\* the snapshot raises KeyError, which the server answers with 500
login_revoke(t) ==
    /\ pc[t] = "login_revoke"
    /\ \E token_id \in loc[t].keys :
        IF token_id \in DOMAIN active_refresh_tokens
        THEN /\ active_refresh_tokens' = DictDel(active_refresh_tokens, token_id)
             /\ goto(t, IF loc[t].keys = {token_id} THEN "login_tokens" ELSE "login_revoke",
                     [loc[t] EXCEPT !.keys = @ \ {token_id}])
        ELSE /\ return(t, "login", 500)
             /\ UNCHANGED active_refresh_tokens
    /\ UNCHANGED <<others, uuids_drawn, issued, superseded, redeemed, login_pairs, ops>>

\* line 349 and create_refresh_token's lines 48-52: both tokens are encoded
login_tokens(t) ==
    /\ pc[t] = "login_tokens"
    /\ LET user == loc[t].user
           token_id == uuids_drawn + 1
       IN /\ uuids_drawn' = token_id
          /\ goto(t, "login_store",
                  [data |-> loc[t].data, user |-> user,
                   token |-> create_access_token(
                        [sub |-> user.email, role |-> user.role, name |-> user.name]),
                   token_id |-> token_id, expire |-> refresh_expire,
                   refresh_token |-> refresh_token_of(user.email, token_id, refresh_expire)])
    /\ UNCHANGED <<others, active_refresh_tokens, issued, superseded, redeemed,
                   login_pairs, ops>>

\* create_refresh_token's line 55: the token is stored as active
login_store(t) ==
    /\ pc[t] = "login_store"
    /\ active_refresh_tokens' =
            registry_insert(active_refresh_tokens, loc[t].user.email,
                            loc[t].token_id, loc[t].expire)
    /\ goto(t, "login_return", loc[t])
    /\ UNCHANGED <<others, uuids_drawn, issued, superseded, redeemed, login_pairs, ops>>

\* lines 56 and 351-356: the tokens are returned to the client
login_return(t) ==
    /\ pc[t] = "login_return"
    /\ issued' = issued \cup {loc[t].token, loc[t].refresh_token}
    /\ superseded' = superseded \cup earlier_refresh_ids(loc[t].data.email)
    /\ login_pairs' = DictSet(login_pairs, loc[t].token_id,
                              [user |-> loc[t].user, access_token |-> loc[t].token])
    /\ goto(t, "idle",
            [op |-> "login", status |-> 200,
             body |-> [message |-> loc[t].user.name, access_token |-> loc[t].token,
                       refresh_token |-> loc[t].refresh_token]])
    /\ UNCHANGED <<others, active_refresh_tokens, uuids_drawn, redeemed, ops>>

\* refresh_access_token, lines 384-395: decode, then the registry and sub checks
refresh_begin(t, token) ==
    /\ pc[t] = "idle"
    /\ Spend
    /\ IF \/ jwt_decode(token, secret_key) # "ok"
          \/ ~HasClaim(token, "id")
          \/ token.payload.id \notin DOMAIN active_refresh_tokens
          \/ ~HasClaim(token, "sub")
       THEN return(t, "refresh", 401)
       ELSE goto(t, "refresh_find", [token |-> token])
    /\ UNCHANGED <<others, active_refresh_tokens, uuids_drawn, issued,
                   superseded, redeemed, login_pairs>>

\* lines 398-400: the search for the user
refresh_find(t) ==
    /\ pc[t] = "refresh_find"
    /\ LET idx == find_by_email(loc[t].token.payload.sub)
       IN IF idx = 0 THEN return(t, "refresh", 404)
          ELSE goto(t, "refresh_del", [token |-> loc[t].token, user |-> users[idx]])
    /\ UNCHANGED <<others, active_refresh_tokens, uuids_drawn, issued,
                   superseded, redeemed, login_pairs, ops>>

\* mutant of refresh_del: the key is popped with a default, a missing key
\* is not an error
refresh_del_pop(t) ==
    /\ pc[t] = "refresh_del"
    /\ active_refresh_tokens' =
            refresh_registry(active_refresh_tokens, loc[t].token.payload.id)
    /\ goto(t, "refresh_issue", loc[t])
    /\ UNCHANGED <<others, uuids_drawn, issued, superseded, redeemed, login_pairs, ops>>

\* line 402: del; KeyError (500) when another thread has deleted the key
refresh_del(t) ==
    /\ pc[t] = "refresh_del"
    /\ LET token_id == loc[t].token.payload.id
       IN IF token_id \in DOMAIN active_refresh_tokens
          THEN /\ active_refresh_tokens' = refresh_registry(active_refresh_tokens, token_id)
               /\ goto(t, "refresh_issue", loc[t])
          ELSE /\ return(t, "refresh", 500)
               /\ UNCHANGED active_refresh_tokens
    /\ UNCHANGED <<others, uuids_drawn, issued, superseded, redeemed, login_pairs, ops>>

\* lines 404-409: the new access token is created and returned
refresh_issue(t) ==
    /\ pc[t] = "refresh_issue"
    /\ LET user == loc[t].user
           new_access_token == create_access_token(
                        [sub |-> user.email, role |-> user.role, name |-> user.name])
       IN /\ issued' = issued \cup {new_access_token}
          /\ goto(t, "idle", [op |-> "refresh", status |-> 200,
                              req |-> loc[t].token,
                              body |-> [access_token |-> new_access_token]])
    /\ redeemed' = redeemed \cup {loc[t].token.payload.id}
    /\ UNCHANGED <<others, active_refresh_tokens, uuids_drawn, superseded, login_pairs, ops>>

NextConc ==
    \/ Ready /\ \E data \in RegisterRequests, salt \in Salts : register_user(data, salt)
    \/ Ready /\ \E user_id \in 1..MaxUsers : delete_user(user_id)
    \/ send_response
    \/ \E t \in Threads, data \in LoginRequests : login_begin(t, data)
    \/ \E t \in Threads : login_verify(t)
    \/ \E t \in Threads : login_list(t)
    \/ \E t \in Threads : login_revoke(t)
    \/ \E t \in Threads : login_tokens(t)
    \/ \E t \in Threads : login_store(t)
    \/ \E t \in Threads : login_return(t)
    \/ \E t \in Threads, token \in Presentable : refresh_begin(t, token)
    \/ \E t \in Threads : refresh_find(t)
    \/ \E t \in Threads : refresh_del(t)
    \/ \E t \in Threads : refresh_issue(t)

SpecConc == Init /\ [][NextConc]_vars


\* =============================================================== claims
\* a refresh token the server signed and returned, not yet past its expiry
LiveIssuedRefresh(token) ==
    token \in issued /\ HasClaim(token, "id") /\ now <= token.payload.exp

\* C1: once a later login of the same email has succeeded, the refresh id an
\* earlier login issued is not in active_refresh_tokens, and a refresh that
\* presents it is answered 401.
C1_EarlierLoginTokenRevoked ==
    /\ superseded \cap DOMAIN active_refresh_tokens = {}
    /\ (resp.op = "refresh" /\ HasClaim(resp.req, "id")
            /\ resp.req.payload.id \in superseded) => resp.status = 401

\* C1 witness: an unexpired, never redeemed refresh token of the first login
\* was presented after the second login and got 401
C1_Witness ==
    /\ resp.op = "refresh" /\ resp.status = 401
    /\ LiveIssuedRefresh(resp.req)
    /\ resp.req.payload.id \in superseded \ redeemed

\* C2: a refresh token is single-use: a redeemed id is never in
\* active_refresh_tokens, and every refresh presenting an id that has been
\* redeemed before is answered 401.
C2_RefreshTokenSingleUse ==
    [][/\ redeemed' \cap DOMAIN active_refresh_tokens' = {}
       /\ \A token \in Presentable :
            (/\ HasClaim(token, "id")
             /\ token.payload.id \in redeemed
             /\ refresh_access_token(token)) => resp'.status = 401]_vars

\* C2 witness: an unexpired refresh token was redeemed and presented again
C2_Witness ==
    /\ resp.op = "refresh" /\ resp.status = 401
    /\ LiveIssuedRefresh(resp.req)
    /\ resp.req.payload.id \in redeemed \ superseded


\* C3: under SpecConc, whenever a login is at its return statement the id
\* of the refresh token it is about to return is in active_refresh_tokens.
C3_ReturnedTokenRegistered ==
    \A t \in Threads :
        pc[t] = "login_return" => loc[t].token_id \in DOMAIN active_refresh_tokens

\* who is in users with the email and password they registered with
RegisteredHere(email, password) ==
    \E i \in DOMAIN users :
        /\ users[i].id \in DOMAIN registered_as
        /\ registered_as[users[i].id] = [email |-> email, password |-> password]

\* C4: while an account that registered (email, password) is in users, a
\* login with that email succeeds with that password and is answered 400
\* with any other.
C4_RegisteredAccountLogsIn ==
    [][\A data \in LoginRequests :
         login_user(data) =>
            \A password \in Passwords :
                RegisteredHere(data.email, password) =>
                    resp'.status = IF data.password = password THEN 200 ELSE 400]_vars

\* some account ever registered with the email
EverRegistered(email) ==
    \E id \in DOMAIN registered_as : registered_as[id].email = email

\* C5 as stated: once a register succeeded for an email, every later register
\* with that email fails, with 400 when its payload passes validation
\* (read in the claim's favour: a payload that fails validation only has to
\* be refused).
C5_ReRegisterAlwaysConflicts ==
    [][\A data \in RegisterRequests, salt \in Salts :
         (EverRegistered(data.email) /\ register_user(data, salt))
            => /\ resp'.status # 201
               /\ validate_register(data) => resp'.status = 400]_vars

\* C5 amended: while an account with the email is in users, a register with
\* that email writes nothing and is answered 400 when the payload passes
\* validation (422 when it does not), whatever name, password and role it has.
C5_ReRegisterConflictsWhileTaken ==
    [][\A data \in RegisterRequests, salt \in Salts :
         ((\E i \in DOMAIN users : users[i].email = data.email)
            /\ register_user(data, salt))
         => /\ resp'.status = IF strip(data.name) # <<>> /\ Len(data.password) >= 6
                              THEN 400 ELSE 422
            /\ UNCHANGED <<users, user_passwords, next_user_id>>]_vars

\* C5 witness: a register for an email registered before was answered 400
\* though its role differs from the account's
C5_Witness ==
    /\ resp.op = "register" /\ resp.status = 400
    /\ EverRegistered(resp.req.email)
    /\ \E i \in DOMAIN users :
        users[i].email = resp.req.email /\ users[i].role # resp.req.role

\* signature and expiry of a presented token both pass
Verifies(token) == token.key = secret_key /\ now <= token.payload.exp

\* C6: a refresh with a signed, unexpired token is answered 401 when its id
\* is not in active_refresh_tokens and 404 when the id is active but no
\* account has its sub; a refresh that fails leaves the registry unchanged.
C6_RefreshFailures ==
    [][\A token \in Presentable :
         refresh_access_token(token) =>
            /\ (/\ Verifies(token)
                /\ \/ ~HasClaim(token, "id")
                   \/ token.payload.id \notin DOMAIN active_refresh_tokens)
                    => resp'.status = 401
            /\ (/\ Verifies(token)
                /\ HasClaim(token, "id")
                /\ token.payload.id \in DOMAIN active_refresh_tokens
                /\ ~\E i \in DOMAIN users : users[i].email = token.payload.sub)
                    => resp'.status = 404
            /\ resp'.status # 200 => UNCHANGED active_refresh_tokens]_vars

\* C6 witness: a refresh was answered 404 and its entry is still active
C6_Witness ==
    /\ resp.op = "refresh" /\ resp.status = 404
    /\ resp.req.payload.id \in DOMAIN active_refresh_tokens

\* what a login that fails must leave alone
LoginFailureFrame ==
    resp'.status # 200 => UNCHANGED <<active_refresh_tokens, users, user_passwords>>

\* C7 as stated: a login is answered 404 when no account has the email and
\* 400 when the account exists but the password does not match; a failing
\* login writes nothing.
C7_LoginFailures ==
    [][\A data \in LoginRequests :
         login_user(data) =>
            /\ (~\E i \in DOMAIN users : users[i].email = data.email)
                    => resp'.status = 404
            /\ (/\ \E i \in DOMAIN users : users[i].email = data.email
                /\ \/ data.email \notin DOMAIN user_passwords
                   \/ user_passwords[data.email] # hashpw(data.password,
                                                      user_passwords[data.email].salt))
                    => resp'.status = 400
            /\ LoginFailureFrame]_vars

\* C7 amended: the same for a login with a non-empty password; a login with
\* an empty password is answered 400 whether or not the account exists.
C7_LoginFailuresNonEmptyPassword ==
    [][\A data \in LoginRequests :
         login_user(data) =>
            /\ (/\ data.password # ""
                /\ ~\E i \in DOMAIN users : users[i].email = data.email)
                    => resp'.status = 404
            /\ (/\ data.password # ""
                /\ \E i \in DOMAIN users : users[i].email = data.email
                /\ \/ data.email \notin DOMAIN user_passwords
                   \/ user_passwords[data.email] # hashpw(data.password,
                                                      user_passwords[data.email].salt))
                    => resp'.status = 400
            /\ data.password = "" => resp'.status = 400
            /\ LoginFailureFrame]_vars

\* C7 witness: a login with a wrong password was answered 400 and the
\* account's refresh token is still active
C7_Witness ==
    /\ resp.op = "login" /\ resp.status = 400 /\ resp.req.password # ""
    /\ \E k \in DOMAIN active_refresh_tokens :
        active_refresh_tokens[k].email = resp.req.email

\* the status a route that requires a role must answer with
RoleGate(token, required_role) ==
    IF ~Verifies(token) THEN 401
    ELSE IF HasClaim(token, "role") /\ token.payload.role = required_role THEN 200
    ELSE 403

\* C8: /admin answers 200 only to a token that verifies and whose role is
\* "admin", /user-resource only to one whose role is "user"; a verified
\* token with another role gets 403 and one that fails verification 401.
C8_RoleRoutes ==
    [][\A token \in Presentable :
         /\ admin_route(token) => resp'.status = RoleGate(token, "admin")
         /\ user_resource(token) => resp'.status = RoleGate(token, "user")]_vars

\* C8 witness: /admin refused a verified token whose role is "user"
C8_Witness ==
    /\ resp.op = "admin" /\ resp.status = 403
    /\ HasClaim(resp.req, "role") /\ resp.req.payload.role = "user"

\* C9: a token whose exp is before now is answered 401 by /protected, /me,
\* /admin, /user-resource and /auth/refresh.
C9_ExpiredTokenRejected ==
    [][\A token \in Presentable :
         (/\ token.payload.exp < now
          /\ \/ protected_route(token)
             \/ get_current_user(token)
             \/ admin_route(token)
             \/ user_resource(token)
             \/ refresh_access_token(token)) => resp'.status = 401]_vars

\* C9 witness: a refresh token the server signed, past its expiry and still
\* in the registry, was answered 401
C9_Witness ==
    /\ resp.op = "refresh" /\ resp.status = 401
    /\ resp.req.key = secret_key /\ HasClaim(resp.req, "id")
    /\ resp.req.payload.exp < now
    /\ resp.req.payload.id \in DOMAIN active_refresh_tokens

\* C10: until its expiry an access token the server issued is accepted by
\* the protected routes with the claims it was issued with, whatever has
\* happened to the account since.
C10_AccessTokenNotRevocable ==
    [][\A token \in issued :
         (HasClaim(token, "role") /\ now <= token.payload.exp) =>
            /\ protected_route(token) =>
                    resp'.status = 200 /\ resp'.body.role = token.payload.role
            /\ get_current_user(token) =>
                    /\ resp'.status = 200
                    /\ resp'.body = [email |-> token.payload.sub,
                                     name |-> token.payload.name,
                                     role |-> token.payload.role]
            /\ admin_route(token) =>
                    resp'.status = IF token.payload.role = "admin" THEN 200 ELSE 403
            /\ user_resource(token) =>
                    /\ resp'.status = IF token.payload.role = "user" THEN 200 ELSE 403
                    /\ resp'.status = 200 => resp'.body.name = token.payload.name]_vars

\* C10 witness: /me answered with the claims of a token whose account has
\* been deleted
C10_Witness ==
    /\ resp.op = "me" /\ resp.status = 200
    /\ resp.req \in issued
    /\ ~\E i \in DOMAIN users : users[i].email = resp.body.email


\* the claims of the access token a successful refresh is about to return
NewClaims == resp'.body.access_token.payload

\* the claims of the access token the login that issued refresh id k returned
LoginClaims(k) == login_pairs[k].access_token.payload

\* C11 as stated: the access token a successful refresh returns carries the
\* subject, role and name of the access token returned by the login that
\* issued the redeemed refresh token.
C11_RefreshKeepsLoginClaims ==
    [][\A token \in Presentable :
         (refresh_access_token(token) /\ resp'.status = 200) =>
            /\ NewClaims.sub = LoginClaims(token.payload.id).sub
            /\ NewClaims.role = LoginClaims(token.payload.id).role
            /\ NewClaims.name = LoginClaims(token.payload.id).name]_vars

\* C11 amended: the access token a successful refresh returns carries the
\* subject of the login's access token, and the role and name that the
\* account holding that email has in users when the refresh runs; they are
\* the login's role and name when the record the login read is still in users.
C11_RefreshReadsCurrentAccount ==
    [][\A token \in Presentable :
         (refresh_access_token(token) /\ resp'.status = 200) =>
            /\ NewClaims.sub = LoginClaims(token.payload.id).sub
            /\ \E i \in DOMAIN users :
                    /\ users[i].email = NewClaims.sub
                    /\ users[i].role = NewClaims.role
                    /\ users[i].name = NewClaims.name
            /\ (\E i \in DOMAIN users : users[i] = login_pairs[token.payload.id].user)
                    => /\ NewClaims.role = LoginClaims(token.payload.id).role
                       /\ NewClaims.name = LoginClaims(token.payload.id).name]_vars

\* C11 witness: a refresh succeeded for the account that logged in, and the
\* access token it returned carries another role than the login's
C11_Witness ==
    /\ resp.op = "refresh" /\ resp.status = 200
    /\ \E i \in DOMAIN users :
            /\ users[i].id = login_pairs[resp.req.payload.id].user.id
            /\ users[i].email = resp.req.payload.sub
    /\ resp.body.access_token.payload.role
            # login_pairs[resp.req.payload.id].access_token.payload.role


\* C12: with atomic handlers, no two entries of active_refresh_tokens have
\* the same email, and right after a successful login the entries of the
\* login's email are exactly the id of the refresh token it returned.
C12_OneEntryPerEmail ==
    /\ \A k1, k2 \in DOMAIN active_refresh_tokens :
            active_refresh_tokens[k1].email = active_refresh_tokens[k2].email => k1 = k2
    /\ (resp.op = "login" /\ resp.status = 200) =>
            tokens_to_revoke(active_refresh_tokens, resp.req.email)
                = {resp.body.refresh_token.payload.id}

\* C12 witness: a second login of an email succeeded while the refresh token
\* of its first login had not been redeemed
C12_Witness ==
    /\ resp.op = "login" /\ resp.status = 200
    /\ \E k \in DOMAIN login_pairs \ redeemed :
            /\ k # resp.body.refresh_token.payload.id
            /\ login_pairs[k].user.email = resp.req.email


\* both threads are at the return statement of a login
BothReturning == \A t \in Threads : pc[t] = "login_return"

\* C13: under SpecConc, when two logins of one email both ended their
\* revoke loop before either stored its token, each token stored stays in
\* active_refresh_tokens; once both are stored the email has exactly those
\* two entries, both logins return 200, and each refresh token passes every
\* check of refresh_access_token while the account exists.
C13_RacingLoginsLeaveTwoEntries ==
    raced =>
        /\ \A t \in Threads :
            pc[t] = "login_return" =>
                /\ loc[t].token_id \in DOMAIN active_refresh_tokens
                /\ active_refresh_tokens[loc[t].token_id].email = loc[t].data.email
                /\ (now <= loc[t].expire /\ find_by_email(loc[t].user.email) # 0)
                        => refresh_check(loc[t].refresh_token) = 200
        /\ BothReturning =>
            \A t, u \in Threads :
                /\ loc[t].data.email = loc[u].data.email
                /\ tokens_to_revoke(active_refresh_tokens, loc[t].data.email)
                        = {loc[x].token_id : x \in Threads}
                /\ t # u => loc[t].token_id # loc[u].token_id

\* C13 witness: two logins of one email raced, both are about to return
\* their tokens, and the email has two entries
C13_Witness ==
    /\ raced /\ BothReturning
    /\ \E email \in Emails :
            Cardinality(tokens_to_revoke(active_refresh_tokens, email)) = 2


\* thread t's last request was a refresh answered with status
Answered(t, status) ==
    /\ pc[t] = "idle" /\ "op" \in DOMAIN loc[t]
    /\ loc[t].op = "refresh" /\ loc[t].status = status

\* C14: under SpecConc, a thread creates the new access token only after it
\* deleted the entry itself: at that statement the id is out of
\* active_refresh_tokens and has never been redeemed, no other thread is at
\* that statement with the same id, and two threads never both hold a 200
\* answer for the same refresh token.
C14_OneRefreshWins ==
    \A t \in Threads :
        /\ pc[t] = "refresh_issue" =>
            /\ loc[t].token.payload.id \notin DOMAIN active_refresh_tokens
            /\ loc[t].token.payload.id \notin redeemed
            /\ \A u \in Threads \ {t} :
                /\ pc[u] = "refresh_issue" => loc[u].token # loc[t].token
                /\ Answered(u, 200) => loc[u].req # loc[t].token
        /\ Answered(t, 200) =>
            \A u \in Threads \ {t} : Answered(u, 200) => loc[u].req # loc[t].req

\* C14 witness: two refreshes of one token interleaved; one found the entry
\* deleted and was answered 500 while the other is creating the access token
C14_Witness ==
    \E t \in Threads, u \in Threads :
        /\ Answered(t, 500)
        /\ pc[u] = "refresh_issue"
        /\ loc[u].token.payload.id \notin DOMAIN active_refresh_tokens


\* the entries the step leaves as they were
KeptEntries(keys) ==
    \A k \in keys : /\ k \in DOMAIN active_refresh_tokens'
                    /\ active_refresh_tokens'[k] = active_refresh_tokens[k]

\* C15: a step changes active_refresh_tokens only when it is a login
\* answered 200, which removes every entry of the login's email and adds one
\* new id, or a refresh answered 200, which removes the redeemed entry and
\* nothing else; every other request (register, user and task routes, the
\* protected routes, every failed request) and the clock leave it unchanged.
C15_RegistryFrame ==
    [][active_refresh_tokens' # active_refresh_tokens =>
        \/ /\ resp'.op = "login" /\ resp'.status = 200
           /\ LET id == resp'.body.refresh_token.payload.id
                  mine == tokens_to_revoke(active_refresh_tokens, resp'.req.email)
              IN /\ id \notin DOMAIN active_refresh_tokens
                 /\ DOMAIN active_refresh_tokens'
                        = (DOMAIN active_refresh_tokens \ mine) \cup {id}
                 /\ active_refresh_tokens'[id].email = resp'.req.email
                 /\ KeptEntries(DOMAIN active_refresh_tokens \ mine)
        \/ /\ resp'.op = "refresh" /\ resp'.status = 200
           /\ LET id == resp'.req.payload.id
              IN /\ id \in DOMAIN active_refresh_tokens
                 /\ DOMAIN active_refresh_tokens' = DOMAIN active_refresh_tokens \ {id}
                 /\ KeptEntries(DOMAIN active_refresh_tokens \ {id})]_vars

\* C15 witness: the registry holds an entry past its expires_at whose
\* account has been deleted
C15_Witness ==
    \E k \in DOMAIN active_refresh_tokens :
        /\ active_refresh_tokens[k].expires_at < now
        /\ k \in DOMAIN login_pairs
        /\ ~\E i \in DOMAIN users : users[i].id = login_pairs[k].user.id


\* a POST /users/ or POST /auth/register has just created an account
Created == resp'.op \in {"create_user", "register"} /\ resp'.status = 201

\* C16: with atomic handlers, after every step no two accounts in users
\* share an id or an email and every id is below the counter; the counter
\* never goes down; an account created by either path gets the counter's
\* value, which is above every id in users, and the counter moves up by one.
C16_UniqueIdsAndEmails ==
    [][/\ \A i, j \in DOMAIN users' :
            i # j => users'[i].id # users'[j].id /\ users'[i].email # users'[j].email
       /\ \A i \in DOMAIN users' : users'[i].id < next_user_id'
       /\ next_user_id' >= next_user_id
       /\ Created =>
            /\ resp'.body.id = next_user_id
            /\ next_user_id' = next_user_id + 1
            /\ users' = Append(users, resp'.body)
            /\ \A i \in DOMAIN users : users[i].id < resp'.body.id
            /\ resp'.body.id \notin DOMAIN registered_as]_vars

\* C16 witness: after the registered account 1 was deleted, POST /users/
\* created an account, which got id 2
C16_Witness ==
    /\ resp.op = "create_user" /\ resp.status = 201 /\ resp.body.id = 2
    /\ 1 \in DOMAIN registered_as
    /\ Len(users) = 1


\* C17: every email with a hash in user_passwords is the email of an account
\* in users.
C17_CredentialsBelongToAccounts ==
    \A email \in DOMAIN user_passwords :
        \E i \in DOMAIN users : users[i].email = email


\* C18: a refresh token issued by a login of the account with id X is
\* redeemed only for that account: when a refresh succeeds, the account
\* whose role and name the new access token carries has the id of the
\* account that logged in (read in the claim's favour: an account with
\* another id that has the login's role and name does not count).
C18_RefreshStaysWithAccount ==
    [][\A token \in Presentable :
         (refresh_access_token(token) /\ resp'.status = 200) =>
            \A i \in DOMAIN users :
                users[i].email = NewClaims.sub =>
                    \/ users[i].id = login_pairs[token.payload.id].user.id
                    \/ /\ NewClaims.role = LoginClaims(token.payload.id).role
                       /\ NewClaims.name = LoginClaims(token.payload.id).name]_vars

\* C19: a login succeeds for an account only with the password that account
\* (same id) registered with; an account that never registered cannot be
\* logged into.
C19_LoginNeedsOwnPassword ==
    [][\A data \in LoginRequests :
         (login_user(data) /\ resp'.status = 200) =>
            \A i \in DOMAIN users :
                users[i].email = data.email =>
                    /\ users[i].id \in DOMAIN registered_as
                    /\ registered_as[users[i].id].password = data.password]_vars


\* C20: a POST /auth/register whose email is taken, whose name is blank
\* after stripping or whose password is shorter than 6 characters is
\* refused, and leaves users, user_passwords, active_refresh_tokens and the
\* id counter unchanged; every refused register leaves them unchanged.
C20_RejectedRegisterWritesNothing ==
    [][\A data \in RegisterRequests, salt \in Salts :
         register_user(data, salt) =>
            /\ (\/ \E i \in DOMAIN users : users[i].email = data.email
                \/ strip(data.name) = <<>>
                \/ Len(data.password) < 6) => resp'.status \in {400, 422}
            /\ resp'.status # 201 =>
                    UNCHANGED <<users, user_passwords, active_refresh_tokens,
                                next_user_id>>]_vars

\* C20 witness: a register with a short password for a free email was
\* refused after account 1 existed, and the counter still says 2
C20_Witness ==
    /\ resp.op = "register" /\ resp.status = 422
    /\ Len(resp.req.password) < 6 /\ strip(resp.req.name) # <<>>
    /\ ~\E i \in DOMAIN users : users[i].email = resp.req.email
    /\ Len(users) = 1 /\ next_user_id = 2

====
